---- MODULE Spec2Model ----
(***************************************************************************)
(* State-machine model of the safety check-in ledger of src/app.py: the    *)
(* checkins and deletions tables, the backup directory, the clock, and     *)
(* the Streamlit script runs (user page loads, admin runs) of a fixed set  *)
(* of sessions sharing one SQLite database.                                *)
(***************************************************************************)
EXTENDS Integers, Sequences, FiniteSets, TLC

(* ------------------------------------------------------------------ *)
(* Bounds of the model                                                 *)
(* ------------------------------------------------------------------ *)

\* total number of rows ever inserted into checkins
MaxInserts == 2

\* total number of confirmed deletion requests
MaxRequests == 2

\* total number of clock advances
MaxTicks == 1

(* ------------------------------------------------------------------ *)
(* Program constants and input domains                                 *)
(* ------------------------------------------------------------------ *)

\* interactive sessions (browser tabs) sharing the database
Sessions == {"s1", "s2"}

\* datetime.combine(cutoff, datetime.min.time()): a date is its midnight
SecondsPerDay == 86400

\* seconds in a minute: the MM and SS fields of isoformat(timespec="seconds")
SecondsPerMinute == 60

\* status written by auto_register (the literal is the Japanese for "safe")
StatusSafe == "safe"

\* os.environ.get("ADMIN_USER", "admin")
AdminUser == "admin"

\* values the ADMIN_PASSWORD environment variable may hold ("" = not set)
AdminPwValues == {"", "secret"}

\* passwords typed into the sidebar
TypedPasswords == {"secret", "wrong"}

\* query strings of the modelled page loads
RawParamSet ==
    { [nick |-> "Aya", school |-> "Midori", tel |-> "090-0000"],
      [n |-> "Ken", p |-> "080-1111", phone |-> "070-2222"],
      [addr |-> "Tokyo"] }

\* texts typed into the confirmation fields
ConfirmTexts == {"DELETE", "DELETE ALL"}

\* texts typed into the deletion-reason field
Reasons == {"duplicate entry"}

\* texts typed into the admin nickname filter
NickFilters == {"", "ya"}

\* values of the admin "limit" number input (min 20, max 5000, step 20)
Limits == {20}

\* dates offered to the cutoff date input (days since the epoch of the model)
CutoffDates == {1}

\* the interactions of the full-delete flow, in the order the page asks for
\* them: the full-delete button, the checkbox, the confirmation text, the
\* execute button
FullSteps == << "full_btn", "checkbox", "confirm_all", "exec_btn" >>

\* the orders in which an administrator works the full-delete widgets
FullFlows ==
    { FullSteps,
      << "full_btn", "checkbox", "full_btn", "checkbox", "confirm_all", "exec_btn" >> }

\* the clock advances in whole days: a step changes the second, the minute
\* bucket and the date together
TickSteps == {SecondsPerDay}

\* columns of the checkins table, in declaration order
Cols ==
    << "id", "ts", "nick", "addr", "school", "tel", "status",
       "raw_params", "sms_sent", "user_agent" >>

\* no backup written yet
NoPath == << >>

(* ------------------------------------------------------------------ *)
(* Pure helpers                                                        *)
(* ------------------------------------------------------------------ *)

Max(S) == CHOOSE x \in S : \A y \in S : y <= x

Min(S) == CHOOSE x \in S : \A y \in S : x <= y

RECURSIVE SortAsc(_)
\* the elements of a finite set of integers, ascending
SortAsc(S) == IF S = {} THEN << >> ELSE << Min(S) >> \o SortAsc(S \ {Min(S)})

RECURSIVE SortDesc(_)
\* the elements of a finite set of integers, descending
SortDesc(S) == IF S = {} THEN << >> ELSE << Max(S) >> \o SortDesc(S \ {Max(S)})

\* the last n elements of a sequence
Take_Last(seq, n) ==
    SubSeq(seq, (IF n < Len(seq) THEN Len(seq) - n ELSE 0) + 1, Len(seq))

\* the first n elements of a sequence (SQL LIMIT n)
Take(seq, n) == SubSeq(seq, 1, IF n < Len(seq) THEN n ELSE Len(seq))

Ids(rows) == { r.id : r \in rows }

RowOf(rows, i) == CHOOSE r \in rows : r.id = i

\* number of clock advances that lead to instant t
TickCount(t) ==
    (t \div SecondsPerDay) + ((t % SecondsPerDay) \div SecondsPerMinute)
        + (t % SecondsPerMinute)

\* offset of the fixed zone Asia/Tokyo, the suffix "+09:00" of isoformat()
TzOffsetHours == 9

\* datetime.isoformat(timespec="seconds") of a naive instant: the text
\* YYYY-MM-DDTHH:MM:SS, as its fields from the most significant down
IsoNaive(t) ==
    << t \div SecondsPerDay, (t % SecondsPerDay) \div SecondsPerMinute,
       t % SecondsPerMinute >>

\* now_jst_iso(): the zone-qualified text, the naive text plus the offset
now_jst_iso(t) == IsoNaive(t) \o << TzOffsetHours >>

\* strftime("%Y%m%d_%H%M%S"): second precision, no zone
StampOf(t) == IsoNaive(t)

\* text comparison a < b of SQLite (memcmp, a proper prefix sorts first)
TextLess(a, b) ==
    \/ \E i \in 1..Len(a) :
          /\ i <= Len(b)
          /\ a[i] < b[i]
          /\ \A j \in 1..(i - 1) : a[j] = b[j]
    \/ /\ Len(a) < Len(b)
       /\ \A j \in 1..Len(a) : a[j] = b[j]

\* datetime.combine(cutoff, datetime.min.time()).isoformat(): naive midnight
CutoffText(d) == IsoNaive(d * SecondsPerDay)

\* minute bucket of an instant (current time truncated to the minute)
MinuteBucket(t) == t \div SecondsPerMinute

\* a resolution that skips an alias whose value is empty
FirstAlias_Truthy(params, aliases) ==
    IF \E i \in 1..Len(aliases) :
          aliases[i] \in DOMAIN params /\ params[aliases[i]] # ""
    THEN params[aliases[Min({ i \in 1..Len(aliases) :
                                aliases[i] \in DOMAIN params
                                /\ params[aliases[i]] # "" })]]
    ELSE ""

\* normalize_params: first alias of each field present in the mapping
FirstAlias(params, aliases) ==
    IF \E i \in 1..Len(aliases) : aliases[i] \in DOMAIN params
    THEN params[aliases[Min({ i \in 1..Len(aliases) : aliases[i] \in DOMAIN params })]]
    ELSE ""

normalize_params(params) ==
    [ nick   |-> FirstAlias(params, << "nick", "n" >>),
      addr   |-> FirstAlias(params, << "addr", "a" >>),
      school |-> FirstAlias(params, << "school", "s" >>),
      tel    |-> FirstAlias(params, << "tel", "p", "phone" >>) ]

\* ASCII case folding of SQLite's LIKE, on the letters of the model's inputs
Fold(ch) == CASE ch = "A" -> "a" [] ch = "K" -> "k" [] OTHER -> ch

FoldEq(a, b) ==
    /\ Len(a) = Len(b)
    /\ \A i \in 1..Len(a) : Fold(SubSeq(a, i, i)) = Fold(SubSeq(b, i, i))

\* nick LIKE '%f%'
Like(nick, f) ==
    \E i \in 0..(Len(nick) - Len(f)) : FoldEq(SubSeq(nick, i + 1, i + Len(f)), f)

\* json.dumps(row): the columns of the row, in order, each with its value
JsonDumps(row) == [ i \in 1..Len(Cols) |-> << Cols[i], row[Cols[i]] >> ]

(* ------------------------------------------------------------------ *)
(* State                                                               *)
(* ------------------------------------------------------------------ *)

VARIABLES
    checkins,   \* rows of table checkins
    seq,        \* sqlite_sequence entry of checkins (AUTOINCREMENT)
    deletions,  \* rows of table deletions
    delSeq,     \* sqlite_sequence entry of deletions
    backups,    \* backup directory: path -> file contents
    clock,      \* wall clock, in seconds
    adminPw,    \* environment variable ADMIN_PASSWORD
    pc,         \* per session: position of its running admin script
    req,        \* per session: locals of its running deletion
    everIds,    \* history: every id ever assigned to a check-in
    removed,    \* history: every row ever removed from checkins, and when
    ingested,   \* history: ingestion calls made, as session/nick/status/minute
    nreq,       \* history: number of confirmed deletion requests
    call        \* a function applied on its own: name, argument, result

vars ==
    << checkins, seq, deletions, delSeq, backups, clock, adminPw, pc, req,
       everIds, removed, ingested, nreq, call >>

db == << checkins, seq, deletions, delSeq, backups >>

hist == << everIds, removed, ingested, nreq >>

\* the cutoff button was not pressed before the delete button
NoCutoff == -1

\* a page on which no widget of the full-delete flow is drawn
NoUi == [ widgets |-> {}, cbox |-> FALSE, go |-> FALSE ]

NoReq ==
    [ mode |-> "none", ids |-> {}, rows |-> << >>, reason |-> "",
      confirm |-> "", cutoff |-> NoCutoff, backup_path |-> NoPath,
      affected |-> 0 ]

\* no function is applied on its own
NoCall == [ fn |-> "none", arg |-> << >>, done |-> TRUE, out |-> << >> ]

\* init_db has run: both tables exist and are empty
Init ==
    /\ checkins = {}
    /\ seq = 0
    /\ deletions = {}
    /\ delSeq = 0
    /\ backups = << >>
    /\ clock = 0
    /\ adminPw \in AdminPwValues
    /\ pc = [s \in Sessions |-> "idle"]
    /\ req = [s \in Sessions |-> NoReq]
    /\ everIds = {}
    /\ removed = {}
    /\ ingested = {}
    /\ nreq = 0
    /\ call = NoCall

(* ------------------------------------------------------------------ *)
(* Ledger store                                                        *)
(* ------------------------------------------------------------------ *)

\* numbering by row count: one more than the number of rows in the table
NextId_RowCount(rows, s) == Cardinality(rows) + 1

\* numbering of a rowid table without AUTOINCREMENT: one more than the
\* largest rowid in the table, the sqlite_sequence entry ignored
NextId_MaxRowid(rows, s) == Max(Ids(rows) \cup {0}) + 1

\* rowid of the next row of an AUTOINCREMENT table: one more than the
\* largest of the rowids in the table and the sqlite_sequence entry
NextId(rows, s) == Max(Ids(rows) \cup {s}) + 1

\* insert_record: the row the INSERT adds
NewRow(payload, id) ==
    [ id |-> id, ts |-> payload.ts, nick |-> payload.nick,
      addr |-> payload.addr, school |-> payload.school, tel |-> payload.tel,
      status |-> payload.status, raw_params |-> payload.raw_params,
      sms_sent |-> payload.sms_sent, user_agent |-> payload.user_agent ]

\* load_history: SELECT * ... [AND nick LIKE ?] ORDER BY id DESC [LIMIT n]
load_history(rows, limit, nick_filter) ==
    LET hit == IF nick_filter # ""
               THEN { r \in rows : Like(r.nick, nick_filter) }
               ELSE rows
        ord == SortDesc(Ids(hit))
        all == [ i \in 1..Len(ord) |-> RowOf(hit, ord[i]) ]
    IN  IF limit # 0 THEN Take(all, limit) ELSE all

\* a SELECT without its WHERE clause: every row of the table
get_rows_by_ids_NoWhere(rows, ids) ==
    LET ord == SortAsc(Ids(rows))
    IN  [ i \in 1..Len(ord) |-> RowOf(rows, ord[i]) ]

\* get_rows_by_ids: SELECT * FROM checkins WHERE id IN (...), in rowid order
get_rows_by_ids(rows, ids) ==
    IF ids = {} THEN << >>
    ELSE LET ord == SortAsc(Ids(rows) \cap ids)
         IN  [ i \in 1..Len(ord) |-> RowOf(rows, ord[i]) ]

\* a DELETE of every row up to the largest id given
delete_rows_by_ids_UpTo(rows, ids) ==
    { r \in rows : \A i \in ids : r.id > i }

\* delete_rows_by_ids: the rows left by DELETE FROM checkins WHERE id IN (...)
delete_rows_by_ids(rows, ids) == { r \in rows : r.id \notin ids }

\* backup_rows: the path of the CSV, from the tag and the second of the call
backup_path(tag, t) == << tag, StampOf(t) >>

\* backup_rows: to_csv writes (and truncates) the file at the path
WriteFile(files, path, content) ==
    [ p \in (DOMAIN files) \cup {path} |->
        IF p = path THEN content ELSE files[p] ]

\* log_deletions: one audit row per given row, ids from the deletions counter
log_deletions(rows, s, t, deleted_by, reason) ==
    { [ id |-> s + i, deleted_at |-> now_jst_iso(t), deleted_by |-> deleted_by,
        reason |-> reason, deleted_row_json |-> JsonDumps(rows[i]) ]
      : i \in 1..Len(rows) }

(* ------------------------------------------------------------------ *)
(* Clock                                                               *)
(* ------------------------------------------------------------------ *)

\* time passes, by one of the steps of the model
Tick(d) ==
    /\ TickCount(clock) < MaxTicks
    /\ clock' = clock + d
    /\ UNCHANGED << db, adminPw, call, pc, req, hist >>

(* ------------------------------------------------------------------ *)
(* User mode                                                           *)
(* ------------------------------------------------------------------ *)

\* auto_register: the payload of the check-in
Payload(params, raw_params, t) ==
    [ ts |-> now_jst_iso(t), nick |-> params.nick, addr |-> params.addr,
      school |-> params.school, tel |-> params.tel, status |-> StatusSafe,
      raw_params |-> raw_params, sms_sent |-> 0, user_agent |-> "" ]

\* a user-mode run that registers whatever the query string holds
UserPageLoad_AnyNick(s, raw_params) ==
    LET params == normalize_params(raw_params)
        id == NextId(checkins, seq)
    IN  /\ pc[s] = "idle"
        /\ seq < MaxInserts
        /\ checkins' = checkins \cup
                          { NewRow(Payload(params, raw_params, clock), id) }
        /\ seq' = id
        /\ everIds' = everIds \cup {id}
        /\ ingested' = ingested \cup
              { << s, params.nick, StatusSafe, MinuteBucket(clock) >> }
        /\ UNCHANGED << deletions, delSeq, backups, clock, adminPw, call, pc, req,
                        removed, nreq >>

\* a user-mode run that drops a check-in when any session has ingested the
\* same nickname and status in the same minute
UserPageLoad_GlobalDedup(s, raw_params) ==
    LET params == normalize_params(raw_params)
        id == NextId(checkins, seq)
        seen == \E k \in ingested :
                   k[2] = params.nick /\ k[4] = MinuteBucket(clock)
    IN  /\ pc[s] = "idle"
        /\ IF params.nick # ""
           THEN /\ seq < MaxInserts
                /\ checkins' = IF seen THEN checkins
                               ELSE checkins \cup
                                  { NewRow(Payload(params, raw_params, clock), id) }
                /\ seq' = IF seen THEN seq ELSE id
                /\ everIds' = IF seen THEN everIds ELSE everIds \cup {id}
                /\ ingested' = ingested \cup
                      { << s, params.nick, StatusSafe, MinuteBucket(clock) >> }
           ELSE /\ UNCHANGED << checkins, seq, everIds, ingested >>
        /\ UNCHANGED << deletions, delSeq, backups, clock, adminPw, call, pc, req,
                        removed, nreq >>

\* a run of main() in user mode, opened with query string raw_params
UserPageLoad(s, raw_params) ==
    LET params == normalize_params(raw_params)
        id == NextId(checkins, seq)
    IN  /\ pc[s] = "idle"
        /\ IF params.nick # ""
           THEN /\ seq < MaxInserts
                /\ checkins' = checkins \cup
                                  { NewRow(Payload(params, raw_params, clock), id) }
                /\ seq' = id
                /\ everIds' = everIds \cup {id}
                /\ ingested' = ingested \cup
                      { << s, params.nick, StatusSafe, MinuteBucket(clock) >> }
           ELSE /\ UNCHANGED << checkins, seq, everIds, ingested >>
        /\ UNCHANGED << deletions, delSeq, backups, clock, adminPw, call, pc, req,
                        removed, nreq >>

(* ------------------------------------------------------------------ *)
(* Admin mode                                                          *)
(* ------------------------------------------------------------------ *)

\* a gate that asks only for ADMIN_PASSWORD to be set
AdminAuth_Configured(pw) == adminPw # ""

\* the password gate: ADMIN_PASSWORD is set and the typed text equals it
AdminAuth(pw) == adminPw # "" /\ pw = adminPw

\* one option of the multiselect: f"{id}: {nick} / {ts}"
Label(r) == << r.id, r.nick, r.ts >>

\* the options of the multiselect, built from the rows of df
Choices(df) == { Label(df[i]) : i \in 1..Len(df) }

\* int(s.split(":")[0]) over the selected options
ParseIds(selected) == { lab[1] : lab \in selected }

\* SELECT * FROM checkins WHERE ts < ?, with the cutoff date as naive text
CutoffRows(rows, d) == { r \in rows : TextLess(r.ts, CutoffText(d)) }

\* the literal a deletion of the given mode compares its confirmation with
ConfirmToken(mode) == IF mode = "full" THEN "DELETE ALL" ELSE "DELETE"

\* a gate that takes the token of either mode
ConfirmOk_AnyToken(mode, text) == text \in { "DELETE", "DELETE ALL" }

\* the confirmation gate
ConfirmOk(mode, text) == text = ConfirmToken(mode)

\* the tag of the backup file of a deletion of the given mode
BackupTag(mode) == IF mode = "full" THEN "full_delete" ELSE "manual_delete"

\* DataFrame(rows).to_csv: a header line and one line per row; an empty
\* frame has no columns and gives an empty file
Csv(rows) ==
    IF Len(rows) = 0 THEN << >>
    ELSE << Cols >> \o
         [ i \in 1..Len(rows) |-> [ j \in 1..Len(Cols) |-> rows[i][Cols[j]] ] ]

\* the statements in another order: the DELETE right after the backup, the
\* audit rows after it
StepAfter_DeleteFirst(p) ==
    CASE p = "confirmed" -> "backup"
      [] p = "backup" -> "delete"
      [] p = "delete" -> "audit"
      [] OTHER -> "idle"

\* the statements of a confirmed deletion, in program order
StepAfter(p) ==
    CASE p = "confirmed" -> "backup"
      [] p = "backup" -> "audit"
      [] p = "audit" -> "delete"
      [] p = "delete" -> "report"
      [] OTHER -> "idle"

\* an admin run that stops at the password gate
AdminDenied(s, pw) ==
    /\ pc[s] = "idle"
    /\ ~AdminAuth(pw)
    /\ UNCHANGED vars

\* an admin run that presses no button, opened with query string raw_params:
\* main normalises the parameters in either mode, and the admin branch uses
\* none of them; the page is drawn and nothing is written
AdminPageLoad(s, pw, raw_params) ==
    /\ pc[s] = "idle"
    /\ UNCHANGED vars

\* an admin run caused by a click on the cutoff button: the labels of df_cut
\* are appended to the local list choices after the multiselect was built
\* from it, so the run leaves a notice on the page and nothing else
CutoffSubmit(s, pw, nick_filter, limit, cutoff) ==
    LET df == load_history(checkins, limit, nick_filter)
    IN  /\ pc[s] = "idle"
        /\ AdminAuth(pw)
        /\ Len(df) # 0
        /\ UNCHANGED vars

\* a delete button that asks for the token and not for a selection
DeleteClick_NoSelectionGate(s, pw, nick_filter, limit, cutoff, selected, reason, confirm_text) ==
    LET df == load_history(checkins, limit, nick_filter)
    IN  /\ pc[s] = "idle"
        /\ AdminAuth(pw)
        /\ Len(df) # 0
        /\ selected \subseteq Choices(df)
        /\ IF ConfirmOk("manual", confirm_text)
           THEN /\ nreq < MaxRequests
                /\ nreq' = nreq + 1
                /\ pc' = [pc EXCEPT ![s] = StepAfter("confirmed")]
                /\ req' = [req EXCEPT ![s] =
                            [ NoReq EXCEPT !.mode = "manual",
                                           !.ids = ParseIds(selected),
                                           !.reason = reason,
                                           !.confirm = confirm_text,
                                           !.cutoff = cutoff ]]
           ELSE UNCHANGED << pc, req, nreq >>
        /\ UNCHANGED << db, clock, adminPw, call, everIds, removed, ingested >>

\* an admin run caused by a click on the delete button, up to the gates;
\* cutoff is the date the session confirmed with the cutoff button in the
\* run before this one (NoCutoff when that run was something else)
DeleteClick(s, pw, nick_filter, limit, cutoff, selected, reason, confirm_text) ==
    LET df == load_history(checkins, limit, nick_filter)
        ids == ParseIds(selected)
        go == ConfirmOk("manual", confirm_text) /\ selected # {}
    IN  /\ pc[s] = "idle"
        /\ AdminAuth(pw)
        /\ Len(df) # 0
        /\ selected \subseteq Choices(df)
        /\ cutoff # NoCutoff => CutoffRows(checkins, cutoff) # {}
        /\ IF go
           THEN /\ nreq < MaxRequests
                /\ nreq' = nreq + 1
                /\ pc' = [pc EXCEPT ![s] = StepAfter("confirmed")]
                /\ req' = [req EXCEPT ![s] =
                            [ mode |-> "manual", ids |-> ids, rows |-> << >>,
                              reason |-> reason, confirm |-> confirm_text,
                              cutoff |-> cutoff, backup_path |-> NoPath,
                              affected |-> 0 ]]
           ELSE UNCHANGED << pc, req, nreq >>
        /\ UNCHANGED << db, clock, adminPw, call, everIds, removed, ingested >>

\* one run of the full-delete block, caused by an interaction with widget w,
\* on a page u left by the run before: a button reads true only in the run
\* its click causes, and a widget that a run does not draw loses its value
FullRun(u, w, confirm_all) ==
    LET full_btn == (w = "full_btn")
        exec_btn == (w = "exec_btn")
        c == IF "checkbox" \in u.widgets
             THEN (IF w = "checkbox" THEN ~u.cbox ELSE u.cbox)
             ELSE FALSE
    IN  [ widgets |->
            IF full_btn
            THEN {"checkbox"} \cup (IF c THEN {"confirm_all", "exec_btn"} ELSE {})
            ELSE {},
          cbox |-> full_btn /\ c,
          go |-> full_btn /\ c /\ exec_btn /\ ConfirmOk("full", confirm_all) ]

RECURSIVE DriveFull(_, _, _)
\* the runs caused by a sequence of interactions, each possible only with a
\* widget the run before has drawn (the full-delete button is always drawn)
DriveFull(u, steps, confirm_all) ==
    IF steps = << >> THEN u
    ELSE IF Head(steps) # "full_btn" /\ Head(steps) \notin u.widgets THEN u
    ELSE LET r == FullRun(u, Head(steps), confirm_all)
         IN  IF r.go THEN r ELSE DriveFull(r, Tail(steps), confirm_all)

\* the admin runs of one pass through the full-delete widgets
FullWipeFlow(s, pw, nick_filter, limit, steps, confirm_all) ==
    LET df == load_history(checkins, limit, nick_filter)
        r == DriveFull(NoUi, steps, confirm_all)
    IN  /\ pc[s] = "idle"
        /\ AdminAuth(pw)
        /\ Len(df) # 0
        /\ IF r.go
           THEN /\ nreq < MaxRequests
                /\ nreq' = nreq + 1
                /\ pc' = [pc EXCEPT ![s] = StepAfter("confirmed")]
                /\ req' = [req EXCEPT ![s] =
                            [ mode |-> "full", ids |-> {}, rows |-> << >>,
                              reason |-> "full_delete", confirm |-> confirm_all,
                              cutoff |-> NoCutoff, backup_path |-> NoPath,
                              affected |-> 0 ]]
           ELSE UNCHANGED << pc, req, nreq >>
        /\ UNCHANGED << db, clock, adminPw, call, everIds, removed, ingested >>

\* the rows the confirmed deletion reads before it deletes: get_rows_by_ids
\* of the parsed ids, or load_history(limit=1000000) for a full delete
RowsRead(rows, r) ==
    IF r.mode = "manual"
    THEN get_rows_by_ids(rows, r.ids)
    ELSE load_history(rows, 1000000, "")

\* the rows are read and backup_rows writes their CSV
BackupRows(s) ==
    LET rows == RowsRead(checkins, req[s])
        path == backup_path(BackupTag(req[s].mode), clock)
    IN  /\ pc[s] = "backup"
        /\ backups' = WriteFile(backups, path, Csv(rows))
        /\ req' = [req EXCEPT ![s].rows = rows, ![s].backup_path = path]
        /\ pc' = [pc EXCEPT ![s] = StepAfter("backup")]
        /\ UNCHANGED << checkins, seq, deletions, delSeq, clock, adminPw, call, hist >>

\* backup_rows raises (the file cannot be written): the run ends there
BackupFail(s) ==
    /\ pc[s] = "backup"
    /\ pc' = [pc EXCEPT ![s] = "idle"]
    /\ req' = [req EXCEPT ![s] = NoReq]
    /\ UNCHANGED << db, clock, adminPw, call, hist >>

\* an audit step that rewrites the table with the entries of this request
LogDeletions_Rewrite(s) ==
    /\ pc[s] = "audit"
    /\ deletions' =
          log_deletions(req[s].rows, delSeq, clock, AdminUser, req[s].reason)
    /\ delSeq' = delSeq + Len(req[s].rows)
    /\ pc' = [pc EXCEPT ![s] = StepAfter("audit")]
    /\ UNCHANGED << checkins, seq, backups, clock, adminPw, call, req, hist >>

\* log_deletions commits one audit row per row read
LogDeletions(s) ==
    /\ pc[s] = "audit"
    /\ deletions' = deletions \cup
          log_deletions(req[s].rows, delSeq, clock, AdminUser, req[s].reason)
    /\ delSeq' = delSeq + Len(req[s].rows)
    /\ pc' = [pc EXCEPT ![s] = StepAfter("audit")]
    /\ UNCHANGED << checkins, seq, backups, clock, adminPw, call, req, hist >>

\* the rows left by the DELETE of a confirmed deletion
RowsLeft(rows, r) ==
    IF r.mode = "manual" THEN delete_rows_by_ids(rows, r.ids) ELSE {}

\* a count that is the size of the selection
Affected_Selected(rows, r) == Cardinality(r.ids)

\* the count the manual deletion reports: cur.rowcount of DELETE ... WHERE
\* id IN (ids); the message of the full delete carries no count
Affected(rows, r) ==
    IF r.mode = "manual"
    THEN Cardinality({ x \in rows : x.id \in r.ids })
    ELSE 0

\* the DELETE commits and the count is reported
DeleteRows(s) ==
    LET left == RowsLeft(checkins, req[s])
    IN  /\ pc[s] = "delete"
        /\ checkins' = left
        /\ removed' = removed \cup
              { [ row |-> r, at |-> clock ] : r \in checkins \ left }
        /\ pc' = [pc EXCEPT ![s] = StepAfter("delete")]
        /\ req' = [req EXCEPT ![s] =
                    [ NoReq EXCEPT !.mode = req[s].mode, !.ids = req[s].ids,
                                   !.affected = Affected(checkins, req[s]) ]]
        /\ UNCHANGED << seq, deletions, delSeq, backups, clock, adminPw, call,
                        everIds, ingested, nreq >>

\* st.experimental_rerun(): the run that deleted ends and the page is drawn
\* anew
Rerun(s) ==
    /\ pc[s] = "report"
    /\ pc' = [pc EXCEPT ![s] = "idle"]
    /\ req' = [req EXCEPT ![s] = NoReq]
    /\ UNCHANGED << db, clock, adminPw, call, hist >>

\* the running script ends between two statements of a confirmed deletion:
\* a statement raises, the process is killed, or a new interaction of the
\* session makes Streamlit stop the run
ScriptStop(s) ==
    /\ pc[s] # "idle"
    /\ pc' = [pc EXCEPT ![s] = "idle"]
    /\ req' = [req EXCEPT ![s] = NoReq]
    /\ UNCHANGED << db, clock, adminPw, call, hist >>

Next ==
    \/ \E d \in TickSteps : Tick(d)
    \/ \E s \in Sessions, raw \in RawParamSet : UserPageLoad(s, raw)
    \/ \E s \in Sessions, pw \in TypedPasswords : AdminDenied(s, pw)
    \/ \E s \in Sessions, pw \in TypedPasswords, raw \in RawParamSet :
          AdminPageLoad(s, pw, raw)
    \/ \E s \in Sessions, pw \in TypedPasswords, f \in NickFilters,
          lim \in Limits, d \in CutoffDates : CutoffSubmit(s, pw, f, lim, d)
    \/ \E s \in Sessions, pw \in TypedPasswords, f \in NickFilters,
          lim \in Limits, d \in CutoffDates \cup {NoCutoff},
          reason \in Reasons, confirm \in ConfirmTexts :
          \E sel \in SUBSET Choices(load_history(checkins, lim, f)) :
             DeleteClick(s, pw, f, lim, d, sel, reason, confirm)
    \/ \E s \in Sessions, pw \in TypedPasswords, f \in NickFilters,
          lim \in Limits, steps \in FullFlows, confirm \in ConfirmTexts :
          FullWipeFlow(s, pw, f, lim, steps, confirm)
    \/ \E s \in Sessions : BackupRows(s)
    \/ \E s \in Sessions : BackupFail(s)
    \/ \E s \in Sessions : LogDeletions(s)
    \/ \E s \in Sessions : DeleteRows(s)
    \/ \E s \in Sessions : Rerun(s)
    \/ \E s \in Sessions : ScriptStop(s)

Spec == Init /\ [][Next]_vars

(* ------------------------------------------------------------------ *)
(* Functions applied on their own                                      *)
(* ------------------------------------------------------------------ *)

\* the rows a table may hold when a query runs on it
MaxRows == 4

\* the keys normalize_params looks for
AliasKeys == { "nick", "n", "addr", "a", "school", "s", "tel", "p", "phone" }

\* query strings: any set of the keys, each with an empty value or with a
\* value that tells which key carried it
ParamInputs ==
    UNION { { [ k \in K |-> IF k \in E THEN "" ELSE k ] : E \in SUBSET K }
            : K \in SUBSET AliasKeys }

\* nicknames of the rows of a queried table, by id (ids need not be dense)
RowNicks == [ i \in 1..(MaxRows + 1) |->
                CASE i = 1 -> "Aya" [] i = 2 -> "Ken" [] i = 3 -> "aya"
                  [] i = 4 -> "Kaya" [] OTHER -> "Ken" ]

\* the rows of a queried table: ids 1, 2, 4 and on, id 3 never present
RowPool ==
    { NewRow(Payload([ nick |-> RowNicks[i], addr |-> "", school |-> "",
                       tel |-> "" ], [ nick |-> RowNicks[i] ], 0), i)
      : i \in (1..(MaxRows + 1)) \ {3} }

\* limits given to load_history; 0 stands for None (no LIMIT clause)
QueryLimits == { 0, 1, 2, 20 }

\* nickname filters given to load_history
QueryFilters == { "", "ya", "K" }

\* load_history(limit=1000000) of the CSV export
ExportLimit == 1000000

QueryInputs ==
    { [ rows |-> T, limit |-> l, nick_filter |-> f ]
      : T \in SUBSET RowPool, l \in QueryLimits, f \in QueryFilters }

PureInit ==
    /\ checkins = {}
    /\ seq = 0
    /\ deletions = {}
    /\ delSeq = 0
    /\ backups = << >>
    /\ clock = 0
    /\ adminPw = ""
    /\ pc = [s \in Sessions |-> "idle"]
    /\ req = [s \in Sessions |-> NoReq]
    /\ everIds = {}
    /\ removed = {}
    /\ ingested = {}
    /\ nreq = 0
    /\ call \in
          { [ fn |-> "normalize_params", arg |-> p, done |-> FALSE, out |-> << >> ]
            : p \in ParamInputs }
          \cup
          { [ fn |-> g, arg |-> q, done |-> FALSE, out |-> << >> ]
            : g \in { "load_history", "export" }, q \in QueryInputs }

\* params = normalize_params(raw_params)
CallNormalize ==
    /\ call.fn = "normalize_params" /\ ~call.done
    /\ call' = [call EXCEPT !.done = TRUE, !.out = normalize_params(call.arg)]
    /\ UNCHANGED << db, clock, adminPw, pc, req, hist >>

\* df = load_history(limit=..., nick_filter=...)
CallLoadHistory ==
    /\ call.fn = "load_history" /\ ~call.done
    /\ call' = [call EXCEPT !.done = TRUE,
                   !.out = load_history(call.arg.rows, call.arg.limit,
                                        call.arg.nick_filter)]
    /\ UNCHANGED << db, clock, adminPw, pc, req, hist >>

\* df_export = load_history(limit=1000000)
CallExport ==
    /\ call.fn = "export" /\ ~call.done
    /\ call' = [call EXCEPT !.done = TRUE,
                   !.out = load_history(call.arg.rows, ExportLimit, "")]
    /\ UNCHANGED << db, clock, adminPw, pc, req, hist >>

PureNext ==
    \/ CallNormalize
    \/ CallLoadHistory
    \/ CallExport

PureSpec == PureInit /\ [][PureNext]_vars

(* ------------------------------------------------------------------ *)
(* Properties                                                          *)
(* ------------------------------------------------------------------ *)

\* the audit entries whose snapshot is the given row
AuditOf(r) == { e \in deletions : e.deleted_row_json = JsonDumps(r) }

\* the rows ever removed from the ledger
RemovedRows == { x.row : x \in removed }

\* C1: every row that has been removed from the checkins ledger has exactly
\* one entry in the deletions table whose snapshot equals the row as it was
\* when it was removed.
C1_ExactlyOneAudit ==
    \A r \in RemovedRows : Cardinality(AuditOf(r)) = 1

\* C2: a deletion request, manual or full wipe, whose confirmation text is
\* not the exact token of its mode leaves the ledger rows, the audit entries
\* and the backup files as they were, and starts nothing.
C2_MismatchChangesNothing ==
    [][ \A s \in Sessions :
          \/ /\ UNCHANGED << checkins, deletions, backups >>
             /\ pc'[s] = pc[s]
          \/ ~ \E pw \in TypedPasswords, f \in NickFilters, lim \in Limits,
                  confirm \in ConfirmTexts :
                 \/ /\ confirm # "DELETE"
                    /\ \E d \in CutoffDates \cup {NoCutoff}, reason \in Reasons,
                          sel \in SUBSET Choices(load_history(checkins, lim, f)) :
                          DeleteClick(s, pw, f, lim, d, sel, reason, confirm)
                 \/ /\ confirm # "DELETE ALL"
                    /\ \E steps \in FullFlows :
                          FullWipeFlow(s, pw, f, lim, steps, confirm)
      ]_vars

\* C2, its case: an authenticated session on a non-empty ledger can press
\* the delete button with rows selected and the full-wipe token typed, and
\* can walk the full-delete widgets with the manual token typed.
C2_Witness ==
    /\ checkins # {}
    /\ nreq < MaxRequests
    /\ \E s \in Sessions, lim \in Limits :
          /\ ENABLED ( \E sel \in SUBSET Choices(load_history(checkins, lim, "")),
                          reason \in Reasons :
                          /\ sel # {}
                          /\ DeleteClick(s, adminPw, "", lim, NoCutoff, sel,
                                         reason, "DELETE ALL") )
          /\ ENABLED FullWipeFlow(s, adminPw, "", lim, FullSteps, "DELETE")

\* C3: a user-mode page load that reaches auto_register in a session that
\* has already ingested the same nickname and status in the same minute
\* bucket performs no insert.
C3_SecondIngestionSuppressed ==
    [][ \A s \in Sessions, raw \in RawParamSet :
          ( /\ << s, normalize_params(raw).nick, StatusSafe,
                  MinuteBucket(clock) >> \in ingested
            /\ UserPageLoad(s, raw) )
          => checkins' = checkins
      ]_vars

\* C4: audit insert and ledger delete are all-or-nothing: once no deletion
\* is under way, a row has an audit entry exactly when it has been removed,
\* also after a run that ended between log_deletions and the DELETE.
C4_AuditAndDeleteAtomic ==
    ( \A s \in Sessions : pc[s] = "idle" )
    => /\ \A r \in checkins : AuditOf(r) = {}
       /\ \A r \in RemovedRows : AuditOf(r) # {}

\* C5: an authenticated administrator on a non-empty ledger who presses the
\* full-delete button, ticks the checkbox, types "DELETE ALL" and presses
\* the execute button gets the full wipe under way (the step that leads to
\* Completed with all rows removed).
C5_FullWipeGetsUnderWay ==
    \A s \in Sessions :
        ( pc[s] = "idle" /\ adminPw # "" /\ checkins # {} /\ nreq < MaxRequests )
        => ENABLED ( /\ \E lim \in Limits :
                          FullWipeFlow(s, adminPw, "", lim, FullSteps, "DELETE ALL")
                     /\ req'[s].mode = "full" )

\* C6: backup handles never collide and no backup file is overwritten: the
\* path backup_rows returns is not the path of an earlier file, and every
\* earlier file keeps its contents.
C6_BackupNeverOverwritten ==
    [][ \A s \in Sessions :
          BackupRows(s)
          => /\ backup_path(BackupTag(req[s].mode), clock) \notin DOMAIN backups
             /\ \A p \in DOMAIN backups :
                   p \in DOMAIN backups' /\ backups'[p] = backups[p]
      ]_vars

\* C7: the steps of a deletion request are ordered backup, audit, delete: an
\* audit entry is committed or a row removed only by a request whose backup
\* file is written, a row is removed only when its audit entry is committed,
\* and a failing backup_rows leaves ledger and deletions table unchanged.
C7_BackupAuditDeleteOrder ==
    [][ /\ ( deletions' # deletions \/ checkins \ checkins' # {} )
           => \E s \in Sessions :
                 /\ pc'[s] # pc[s]
                 /\ req[s].backup_path # NoPath
                 /\ req[s].backup_path \in DOMAIN backups
        /\ \A r \in checkins \ checkins' : AuditOf(r) # {}
        /\ \A s \in Sessions :
              BackupFail(s) => UNCHANGED << checkins, deletions >>
      ]_vars

\* C7, its case: a request has gone through its three steps: a backup file
\* is there, and a removed row has its audit entry.
C7_Witness ==
    /\ DOMAIN backups # {}
    /\ \E r \in RemovedRows : AuditOf(r) # {}
    /\ \A s \in Sessions : pc[s] = "idle"

\* C8: a deletion request made with a cutoff date and the correct token
\* targets exactly the rows whose timestamp is strictly earlier than the
\* cutoff, and when it completes none of those rows is left.
C8_CutoffTargetsOlderRows ==
    [][ \A s \in Sessions :
          /\ \A pw \in TypedPasswords, f \in NickFilters, lim \in Limits,
                d \in CutoffDates, reason \in Reasons :
                \A sel \in SUBSET Choices(load_history(checkins, lim, f)) :
                   ( sel # {} /\ DeleteClick(s, pw, f, lim, d, sel, reason, "DELETE") )
                   => req'[s].ids = Ids(CutoffRows(checkins, d))
          /\ ( req[s].cutoff # NoCutoff /\ DeleteRows(s) )
             => CutoffRows(checkins', req[s].cutoff) = {}
      ]_vars

\* C9: a check-in id is never reused: every newly inserted row receives an
\* id strictly greater than every id assigned before, also after the row
\* with the highest id was deleted.
C9_IdNeverReused ==
    [][ \A r \in checkins' \ checkins : \A i \in everIds : r.id > i ]_vars

\* C9, its case: the row that had the highest id was removed, and a row was
\* inserted at a later time.
C9_Witness ==
    \E x \in removed, r \in checkins :
        /\ x.row.id = Max(everIds \ {r.id})
        /\ TextLess(now_jst_iso(x.at), r.ts)

\* C10: after a deletion of a row set, get_rows_by_ids returns no row for
\* the ids of the set in any later state, whatever ingestions and deletions
\* follow.
C10_DeletedIdsStayGone ==
    get_rows_by_ids(checkins, Ids(RemovedRows)) = << >>

\* C10, its case: rows were removed and an ingestion followed.
C10_Witness ==
    /\ removed # {}
    /\ \E r \in checkins :
          \A x \in removed : TextLess(now_jst_iso(x.at), r.ts)

\* C11: the deletions table is append-only: across every step the set of
\* audit entries only grows, a committed entry keeps its id, deleted_at,
\* deleted_by, reason and snapshot, and a new entry takes no id in use.
C11_AuditAppendOnly ==
    [][ /\ deletions \subseteq deletions'
        /\ \A e \in deletions' \ deletions : \A d \in deletions : d.id # e.id
      ]_vars

\* C11, its case: entries were appended at two different instants, the
\* earlier ones still there.
C11_Witness ==
    \E d, e \in deletions : d.id < e.id /\ TextLess(d.deleted_at, e.deleted_at)

\* C12: a confirmed manual deletion whose selected ids are all absent from
\* the ledger when it runs reads no row, appends no audit entry, leaves
\* the ledger unchanged and reports a removed-count of 0.
C12_AbsentIdsRemoveNothing ==
    [][ \A s \in Sessions :
          req[s].mode = "manual"
          => /\ ( req[s].ids \cap Ids(checkins) = {} /\ BackupRows(s) )
                => req'[s].rows = << >>
             /\ ( req[s].rows = << >> /\ LogDeletions(s) )
                => deletions' = deletions
             /\ ( req[s].rows = << >> /\ DeleteRows(s) )
                => ( checkins' = checkins /\ req'[s].affected = 0 )
      ]_vars

\* C12, its case: a confirmed deletion with a non-empty selection has read
\* its rows and found none, has been through its audit step, and rows it
\* did not select are in the ledger.
C12_Witness ==
    \E s \in Sessions :
        /\ pc[s] = "delete"
        /\ req[s].ids # {}
        /\ req[s].rows = << >>
        /\ checkins # {}

\* C13: no backup, audit insert or ledger delete is reachable unless
\* ADMIN_PASSWORD is set non-empty and the typed password equals it: an
\* admin run with no configured password or a mismatched one changes
\* nothing at all, so nothing keeps the administrator from trying again.
C13_AuthGate ==
    [][ /\ ( \/ deletions' # deletions
             \/ backups' # backups
             \/ checkins \ checkins' # {}
             \/ pc' # pc )
           => adminPw # ""
        /\ \A s \in Sessions :
              ~ \E pw \in TypedPasswords :
                  /\ adminPw = "" \/ pw # adminPw
                  /\ \/ AdminDenied(s, pw)
                     \/ \E raw \in RawParamSet : AdminPageLoad(s, pw, raw)
                     \/ \E f \in NickFilters, lim \in Limits :
                           \/ \E d \in CutoffDates : CutoffSubmit(s, pw, f, lim, d)
                           \/ \E d \in CutoffDates \cup {NoCutoff},
                                 reason \in Reasons, confirm \in ConfirmTexts,
                                 sel \in SUBSET Choices(load_history(checkins, lim, f)) :
                                 DeleteClick(s, pw, f, lim, d, sel, reason, confirm)
                           \/ \E steps \in FullFlows, confirm \in ConfirmTexts :
                                 FullWipeFlow(s, pw, f, lim, steps, confirm)
      ]_vars

\* C13, its case: the password is configured, a run with a wrong password
\* stops at the gate, and in the state it leaves the same session gets a
\* deletion under way with the right one.
C13_Witness ==
    /\ adminPw # ""
    /\ checkins # {}
    /\ \E s \in Sessions, lim \in Limits :
          /\ ENABLED AdminDenied(s, "wrong")
          /\ ENABLED ( /\ \E sel \in SUBSET Choices(load_history(checkins, lim, "")),
                             reason \in Reasons :
                             DeleteClick(s, adminPw, "", lim, NoCutoff, sel,
                                         reason, "DELETE")
                       /\ pc'[s] # "idle" )

\* C14: a manual deletion request with the correct confirmation token and
\* an empty selection is a no-op that ends where it started: no backup file
\* is created, no audit entry appended, no ledger row removed, and no
\* deletion gets under way.
C14_EmptySelectionNoOp ==
    [][ \A s \in Sessions :
          \/ /\ UNCHANGED << checkins, deletions, backups >>
             /\ pc'[s] = pc[s]
          \/ ~ \E pw \in TypedPasswords, f \in NickFilters, lim \in Limits,
                  d \in CutoffDates \cup {NoCutoff}, reason \in Reasons :
                 DeleteClick(s, pw, f, lim, d, {}, reason, "DELETE")
      ]_vars

\* C14, its case: an authenticated session on a non-empty ledger, with a
\* request still allowed, can press the delete button with "DELETE" typed
\* and nothing selected.
C14_Witness ==
    /\ checkins # {}
    /\ nreq < MaxRequests
    /\ \E s \in Sessions, lim \in Limits, reason \in Reasons :
          ENABLED DeleteClick(s, adminPw, "", lim, NoCutoff, {}, reason, "DELETE")

\* the fixed priority list of each field of normalize_params
AliasPriority ==
    [ nick |-> << "nick", "n" >>, addr |-> << "addr", "a" >>,
      school |-> << "school", "s" >>, tel |-> << "tel", "p", "phone" >> ]

\* C15: normalize_params returns a record with exactly the fields nick,
\* addr, school, tel; each field holds the value of the first alias of its
\* priority list that is a key of the input (later aliases ignored, also
\* when the first one carries an empty value), and "" when none is a key.
C15_FirstAliasWins ==
    ( call.fn = "normalize_params" /\ call.done )
    => /\ DOMAIN call.out = { "nick", "addr", "school", "tel" }
       /\ \A fld \in DOMAIN AliasPriority :
             LET al == AliasPriority[fld]
                 present == { i \in 1..Len(al) : al[i] \in DOMAIN call.arg }
             IN  IF present = {}
                 THEN call.out[fld] = ""
                 ELSE \E i \in present :
                         /\ \A j \in present : i <= j
                         /\ call.out[fld] = call.arg[al[i]]

\* C15, its case: normalize_params has run on a query string that carries
\* p and phone but not tel, nick with an empty value and n with a value,
\* and nothing for addr.
C15_Witness ==
    /\ call.fn = "normalize_params" /\ call.done
    /\ { "p", "phone", "nick", "n" } \subseteq DOMAIN call.arg
    /\ { "tel", "addr", "a" } \cap DOMAIN call.arg = {}
    /\ call.arg["nick"] = "" /\ call.arg["n"] = "n"
    /\ call.arg["p"] = "p" /\ call.arg["phone"] = "phone"
    /\ call.out.nick = "" /\ call.out.tel = "p" /\ call.out.addr = ""

\* the rows of a query result
RowsOf(q) == { q[i] : i \in 1..Len(q) }

\* a query result is ordered by id descending
IdDescending(q) == \A i, j \in 1..Len(q) : i < j => q[i].id > q[j].id

C17_CountIsRowsRemoved ==
    [][ /\ \A s \in Sessions :
              ( req[s].mode = "manual" /\ DeleteRows(s) )
              => /\ req'[s].affected = Cardinality(checkins \ checkins')
                 /\ checkins \ checkins' =
                       { r \in checkins : r.id \in req[s].ids }
                 /\ deletions' = deletions
        /\ \A x, y \in removed' : x.row = y.row => x.at = y.at
      ]_vars

\* C17, its case: two sessions wrote an audit entry for the same row, the
\* row is removed, and one of the two has reported a count smaller than
\* its selection.
C17_Witness ==
    \E s \in Sessions :
        /\ pc[s] = "report"
        /\ req[s].affected < Cardinality(req[s].ids)
        /\ \E r \in RemovedRows :
              r.id \in req[s].ids /\ Cardinality(AuditOf(r)) = 2

\* C18: an ingestion is suppressed only if the same session has already
\* ingested the same nickname and status in the same minute bucket: an
\* ingestion whose session, nickname, status and minute were not seen
\* together before adds one row, so the same identity in another minute, or
\* in the same minute from another session, gives a second row.
C18_NewKeyIsIngested ==
    [][ \A s \in Sessions, raw \in RawParamSet :
          LET nick == normalize_params(raw).nick
          IN  ( /\ nick # ""
                /\ << s, nick, StatusSafe, MinuteBucket(clock) >> \notin ingested
                /\ UserPageLoad(s, raw) )
              => /\ Cardinality(checkins') = Cardinality(checkins) + 1
                 /\ \E r \in checkins' \ checkins :
                       r.nick = nick /\ r.status = StatusSafe
      ]_vars

\* C18, its case: two sessions have ingested the same nickname and status
\* in the same minute, and the ledger holds a row for each.
C18_Witness ==
    \E n \in { normalize_params(raw).nick : raw \in RawParamSet } :
        /\ n # ""
        /\ { << s, n, StatusSafe, MinuteBucket(clock) >> : s \in Sessions }
              \subseteq ingested
        /\ Cardinality({ r \in checkins :
                            r.nick = n /\ r.ts = now_jst_iso(clock) })
              = Cardinality(Sessions)

\* C19: no operation changes a field of an existing ledger row: a row
\* whose id was in the ledger before a step is the row it was, an
\* ingestion keeps every earlier row, a manual deletion of id set S keeps
\* every row whose id is not in S, and every row carries the id, timestamp,
\* "safe" status and sms_sent 0 it was created with.
C19_RowsNeverChange ==
    [][ /\ \A r \in checkins' : r.id \in Ids(checkins) => r \in checkins
        /\ \A r \in checkins' \ checkins :
              r.id \notin everIds /\ r.ts = now_jst_iso(clock)
        /\ \A r \in checkins' : r.status = StatusSafe /\ r.sms_sent = 0
        /\ \A s \in Sessions, raw \in RawParamSet :
              UserPageLoad(s, raw) => checkins \subseteq checkins'
        /\ \A s \in Sessions :
              ( req[s].mode = "manual" /\ DeleteRows(s) )
              => \A r \in checkins : r.id \notin req[s].ids => r \in checkins'
      ]_vars

\* C19, its case: a manual deletion has removed a row, and a row created
\* before the removed one is still in the ledger.
C19_Witness ==
    \E x \in removed, r \in checkins : r.id < x.row.id

\* C20: a page load inserts a ledger row if and only if it is a user-mode
\* load whose normalized nickname is non-empty: every inserted row comes
\* from such a load and carries its nickname, such a load inserts, a
\* user-mode load without a nickname inserts nothing, and an admin-mode
\* load inserts nothing even when the URL carries a nickname.
C20_InsertIffUserNick ==
    [][ \/ UNCHANGED vars
        \/ /\ \A r \in checkins' \ checkins :
                  /\ r.nick # ""
                  /\ \E s \in Sessions, raw \in RawParamSet :
                        UserPageLoad(s, raw) /\ normalize_params(raw).nick = r.nick
           /\ \A s \in Sessions, raw \in RawParamSet :
                  /\ ( normalize_params(raw).nick # "" /\ UserPageLoad(s, raw) )
                     => checkins' \ checkins # {}
                  /\ ( normalize_params(raw).nick = "" /\ UserPageLoad(s, raw) )
                     => checkins' = checkins
                  /\ \A pw \in TypedPasswords :
                        AdminPageLoad(s, pw, raw) => checkins' = checkins
      ]_vars

\* C20, its case: with room for a further row, a user-mode load whose
\* query string has no nickname and an admin-mode load whose query string
\* has one can both be made, and every row of the ledger has a nickname.
C20_Witness ==
    /\ checkins # {}
    /\ seq < MaxInserts
    /\ \A r \in checkins : r.nick # ""
    /\ \E s \in Sessions, raw, rawn \in RawParamSet :
          /\ normalize_params(raw).nick = ""
          /\ normalize_params(rawn).nick # ""
          /\ ENABLED UserPageLoad(s, raw)
          /\ ENABLED AdminPageLoad(s, adminPw, rawn)

====
